---------------------------- MODULE Spec2Model ----------------------------
(***************************************************************************)
(* Model of the transaction ingestion-and-analytics engine:                *)
(* DatabaseService (services/databaseService.js, carried in src/setup.bat) *)
(* over the Transaction model (models/Transaction.js, carried in           *)
(* src/api/routes/transactions.js).                                        *)
(*                                                                         *)
(* The collection is a sequence of documents in natural (insertion) order. *)
(* Each service method is an operator from the collection and the call's   *)
(* arguments to the new collection and the returned object; one action per *)
(* method applies it and keeps the returned object in `last` until the     *)
(* route handler has sent it (Respond).                                    *)
(*                                                                         *)
(* Amounts are integers (whole currency units); instants are pairs         *)
(* <day number since 2024-01-01, millisecond of the day> in the server's   *)
(* local time.                                                             *)
(***************************************************************************)
EXTENDS Integers, Sequences, FiniteSets, TLC

(***************************************************************************)
(* Bounds of the model.                                                    *)
(***************************************************************************)
MaxBatch == 2
MaxYear == 2025
MaxLimit == 2
MaxSkip == 1

Min(a, b) == IF a < b THEN a ELSE b

(***************************************************************************)
(* JavaScript values that reach the service as loosely typed options.      *)
(***************************************************************************)
Undefined == [k |-> "undefined", n |-> 0, s |-> <<>>]
Num(x) == [k |-> "number", n |-> x, s |-> <<>>]
Str(cs) == [k |-> "string", n |-> 0, s |-> cs]
NaN == [nan |-> TRUE, n |-> 0]
Number(x) == [nan |-> FALSE, n |-> x]

\* The absent string (a missing property of an object).
NoString == "<undefined>"

\* JavaScript truthiness, as used by `if (options.x)` and `a || b`.
Truthy(v) ==
    CASE v.k = "undefined" -> FALSE
      [] v.k = "number" -> v.n # 0
      [] v.k = "string" -> Len(v.s) > 0

\* The null string (a property that is there and holds null).
NullString == "<null>"

TruthyString(s) == s # NoString /\ s # NullString /\ s # ""

Digits == <<"0", "1", "2", "3", "4", "5", "6", "7", "8", "9">>
IsDigit(c) == \E i \in 1..10 : Digits[i] = c
DigitValue(c) == (CHOOSE i \in 1..10 : Digits[i] = c) - 1

\* Value of the longest prefix of decimal digits of cs, read left to right.
RECURSIVE DigitPrefix(_, _, _)
DigitPrefix(cs, i, acc) ==
    IF i > Len(cs) \/ ~IsDigit(cs[i]) THEN acc
    ELSE DigitPrefix(cs, i + 1, 10 * acc + DigitValue(cs[i]))

\* parseFloat / parseInt on the values the model passes: a number is
\* itself, a string yields its leading digits or NaN when it has none,
\* undefined yields NaN.
parseFloat(v) ==
    CASE v.k = "number" -> Number(v.n)
      [] v.k = "string" ->
            IF Len(v.s) > 0 /\ IsDigit(v.s[1]) THEN Number(DigitPrefix(v.s, 1, 0))
            ELSE NaN
      [] v.k = "undefined" -> NaN

parseInt(v) == parseFloat(v)

\* `x || dflt` on a parsed number: NaN and 0 are falsy.
OrDefault(x, dflt) == IF x.nan \/ x.n = 0 THEN dflt ELSE x.n

(***************************************************************************)
(* Dates: the local-time Date constructor of ECMAScript.                   *)
(***************************************************************************)
IsLeap(y) == (y % 4 = 0 /\ y % 100 # 0) \/ y % 400 = 0
DaysInYear(y) == IF IsLeap(y) THEN 366 ELSE 365

\* Days of the month with index mn (0 = January) of year y.
DaysInMonth(y, mn) ==
    CASE mn = 1 -> IF IsLeap(y) THEN 29 ELSE 28
      [] mn \in {3, 5, 8, 10} -> 30
      [] OTHER -> 31

RECURSIVE DayFromYear(_)
DayFromYear(y) == IF y <= 2024 THEN 0 ELSE DayFromYear(y - 1) + DaysInYear(y - 1)

RECURSIVE DayWithinYear(_, _)
DayWithinYear(y, mn) == IF mn = 0 THEN 0 ELSE DayWithinYear(y, mn - 1) + DaysInMonth(y, mn - 1)

\* MakeDay(year, month, date): month is an index and may be 12 or more, date
\* may be 0 (the day before the first of the month).
MakeDay(year, month, date) ==
    LET ym == year + (month \div 12)
        mn == month % 12
    IN DayFromYear(ym) + DayWithinYear(ym, mn) + date - 1

MakeTime(hour, min, sec, ms) == hour * 3600000 + min * 60000 + sec * 1000 + ms

\* new Date(year, monthIndex, day, hours, minutes, seconds, ms)
NewDate(year, month, date, hour, min, sec, ms) ==
    [d |-> MakeDay(year, month, date), ms |-> MakeTime(hour, min, sec, ms)]

\* $gte / $lte on dates
DateLeq(a, b) == a.d < b.d \/ (a.d = b.d /\ a.ms <= b.ms)

NoDate == [k |-> "undefined", t |-> [d |-> 0, ms |-> 0]]
ADate(t) == [k |-> "date", t |-> t]

(***************************************************************************)
(* Inputs: users, and the candidate records handed over by extraction.     *)
(***************************************************************************)
Users == {"u1", "u2"}
Years == 2024..MaxYear
Months == 1..12

Rec(id, user, date, amount, type, category) ==
    [id |-> id, userId |-> user, date |-> date, description |-> "txn",
     amount |-> amount, type |-> type, category |-> category]

Records ==
    { Rec("a", "u1", NewDate(2024, 9, 1, 0, 0, 0, 0), 100, "Debit", "Food"),
      Rec("b", "u1", NewDate(2024, 9, 31, 12, 0, 0, 0), 500, "Credit", "Salary"),
      Rec("c", "u1", NewDate(2024, 10, 1, 0, 0, 0, 0), 50, "Debit", "Food"),
      Rec("a", "u2", NewDate(2025, 1, 28, 23, 59, 59, 999), 0, "Credit", NoString),
      Rec("b", "u2", NewDate(2024, 1, 29, 0, 0, 0, 0), 50, "Debit", "Food"),
      Rec("b", "u1", NewDate(2024, 9, 1, 0, 0, 0, 0), 100, "Debit", "Salary"),
      Rec("c", "u1", NewDate(2025, 1, 28, 0, 0, 0, 0), 0 - 1, "Debit", "Food"),
      Rec("c", "u2", NewDate(2024, 8, 30, 0, 0, 0, 0), 100, "Transfer", "Food") }

\* The records passed to insertTransaction one at a time: those above, and
\* two that are in order but for a category that is empty or null.
Candidates ==
    Records \cup
    { Rec("c", "u2", NewDate(2024, 8, 30, 0, 0, 0, 0), 50, "Debit", ""),
      Rec("c", "u2", NewDate(2024, 8, 30, 0, 0, 0, 0), 50, "Debit", NullString) }

\* What the store does to one call: nothing, reject the lookup, reject the write.
Faults == {"none", "find", "save"}

RECURSIVE SeqsUpTo(_, _)
SeqsUpTo(S, n) ==
    IF n = 0 THEN {<<>>}
    ELSE LET shorter == SeqsUpTo(S, n - 1)
         IN shorter \cup {Append(q, x) : q \in {p \in shorter : Len(p) = n - 1}, x \in S}

Batches == SeqsUpTo(Records, MaxBatch)

(***************************************************************************)
(* Transaction schema.                                                     *)
(***************************************************************************)
\* Mutant of NewTransaction: the schema has no default for category.
NewTransactionWithoutDefault(data) == data

\* new Transaction(data): the schema's default for category applies to an
\* absent value (not to null, not to the empty string).
NewTransaction(data) ==
    [data EXCEPT !.category = IF data.category = NoString THEN "Other" ELSE data.category]

\* Validation run by save(): required paths, min: 0, enum.
Validate(doc) ==
    /\ TruthyString(doc.id)
    /\ TruthyString(doc.userId)
    /\ TruthyString(doc.description)
    /\ doc.amount >= 0
    /\ doc.type \in {"Credit", "Debit"}
    /\ TruthyString(doc.category)

\* Mutant of isDuplicate: the lookup is made on another path than `id` and
\* finds nothing.
isDuplicateOnOtherPath(coll, transactionId) == FALSE

\* !!(await this.findOne({ id: transactionId }))
isDuplicate(coll, transactionId) ==
    \E i \in 1..Len(coll) : coll[i].id = transactionId

\* transaction.save(): validation, then the insert under the unique index
\* on id. TRUE when the document was written.
SaveAccepted(coll, doc, fault) ==
    /\ Validate(doc)
    /\ fault # "save"
    /\ ~\E i \in 1..Len(coll) : coll[i].id = doc.id

(***************************************************************************)
(* DatabaseService: ingestion.                                             *)
(***************************************************************************)
NoDoc == Rec(NoString, NoString, [d |-> 0, ms |-> 0], 0, NoString, NoString)

Inserted(doc) == [success |-> TRUE, duplicate |-> FALSE, message |-> "", data |-> doc]
Duplicate == [success |-> FALSE, duplicate |-> TRUE,
              message |-> "Transaction already exists", data |-> NoDoc]
Failed == [success |-> FALSE, duplicate |-> FALSE, message |-> "error", data |-> NoDoc]

\* Mutant of insertTransaction: the lookup is made on the id together with
\* the userId, findOne({ id, userId }).
insertTransactionLookingUpOwner(coll, transactionData, fault) ==
    IF fault = "find" THEN [store |-> coll, result |-> Failed]
    ELSE IF \E i \in 1..Len(coll) :
               coll[i].id = transactionData.id /\ coll[i].userId = transactionData.userId
    THEN [store |-> coll, result |-> Duplicate]
    ELSE LET transaction == NewTransaction(transactionData)
         IN IF SaveAccepted(coll, transaction, fault)
            THEN [store |-> Append(coll, transaction), result |-> Inserted(transaction)]
            ELSE [store |-> coll, result |-> Failed]

\* Mutant of insertTransaction: a record whose id is stored replaces the
\* stored one.
insertTransactionReplacing(coll, transactionData, fault) ==
    IF fault = "find" THEN [store |-> coll, result |-> Failed]
    ELSE IF isDuplicate(coll, transactionData.id)
    THEN [store |-> [i \in 1..Len(coll) |->
                        IF coll[i].id = transactionData.id
                        THEN NewTransaction(transactionData) ELSE coll[i]],
          result |-> Duplicate]
    ELSE LET transaction == NewTransaction(transactionData)
         IN IF SaveAccepted(coll, transaction, fault)
            THEN [store |-> Append(coll, transaction), result |-> Inserted(transaction)]
            ELSE [store |-> coll, result |-> Failed]

insertTransaction(coll, transactionData, fault) ==
    IF fault = "find" THEN [store |-> coll, result |-> Failed]
    ELSE IF isDuplicate(coll, transactionData.id)
    THEN [store |-> coll, result |-> Duplicate]
    ELSE LET transaction == NewTransaction(transactionData)
         IN IF SaveAccepted(coll, transaction, fault)
            THEN [store |-> Append(coll, transaction), result |-> Inserted(transaction)]
            ELSE [store |-> coll, result |-> Failed]

\* Mutant of Tally: the `else if (result.duplicate)` branch is missing.
TallyWithoutDuplicates(results, result) ==
    IF result.success
    THEN [results EXCEPT !.inserted = @ + 1,
                         !.transactions = Append(@, result.data)]
    ELSE [results EXCEPT !.errors = @ + 1]

\* Mutant of Tally: an inserted record is put at the head of the list
\* (unshift in place of push).
TallyPrepending(results, result) ==
    IF result.success
    THEN [results EXCEPT !.inserted = @ + 1,
                         !.transactions = <<result.data>> \o @]
    ELSE IF result.duplicate
    THEN [results EXCEPT !.duplicates = @ + 1]
    ELSE [results EXCEPT !.errors = @ + 1]

\* The body of the for loop: the counters after one record's result.
Tally(results, result) ==
    IF result.success
    THEN [results EXCEPT !.inserted = @ + 1,
                         !.transactions = Append(@, result.data)]
    ELSE IF result.duplicate
    THEN [results EXCEPT !.duplicates = @ + 1]
    ELSE [results EXCEPT !.errors = @ + 1]

\* Mutant of InsertLoop: the loop is left at the first failed record.
RECURSIVE InsertLoopLeavingOnError(_, _, _, _, _)
InsertLoopLeavingOnError(coll, transactions, faults, i, results) ==
    IF i > Len(transactions) THEN [store |-> coll, result |-> results]
    ELSE LET r == insertTransaction(coll, transactions[i], faults[i])
             tallied == IF r.result.success
                        THEN [results EXCEPT !.inserted = @ + 1,
                                             !.transactions = Append(@, r.result.data)]
                        ELSE IF r.result.duplicate
                        THEN [results EXCEPT !.duplicates = @ + 1]
                        ELSE [results EXCEPT !.errors = @ + 1]
         IN IF ~r.result.success /\ ~r.result.duplicate
            THEN [store |-> r.store, result |-> tallied]
            ELSE InsertLoopLeavingOnError(r.store, transactions, faults, i + 1, tallied)

RECURSIVE InsertLoop(_, _, _, _, _)
InsertLoop(coll, transactions, faults, i, results) ==
    IF i > Len(transactions) THEN [store |-> coll, result |-> results]
    ELSE LET r == insertTransaction(coll, transactions[i], faults[i])
         IN InsertLoop(r.store, transactions, faults, i + 1, Tally(results, r.result))

insertTransactions(coll, transactions, faults) ==
    InsertLoop(coll, transactions, faults, 1,
               [inserted |-> 0, duplicates |-> 0, errors |-> 0, transactions |-> <<>>])

(***************************************************************************)
(* The store's read operations: find / sort / skip / limit, count.         *)
(***************************************************************************)
NoBound == [set |-> FALSE, v |-> NaN]
Bound(x) == [set |-> TRUE, v |-> x]

\* Mutant of CastAccepted: the filter is sent as built.
CastAcceptedAlways(query) == TRUE

\* Mongoose casts the filter before sending it; a NaN cannot be cast to the
\* Number path `amount` and the query rejects with a CastError.
CastAccepted(query) ==
    /\ query.amountGte.set => ~query.amountGte.v.nan
    /\ query.amountLte.set => ~query.amountLte.v.nan

\* Mutant of Matches: the filter has lost its userId.
MatchesAnyUser(doc, query) ==
    /\ query.dateGte.k = "date" => DateLeq(query.dateGte.t, doc.date)
    /\ query.dateLte.k = "date" => DateLeq(doc.date, query.dateLte.t)
    /\ query.category # NoString => doc.category = query.category
    /\ query.type # NoString => doc.type = query.type
    /\ query.amountGte.set => doc.amount >= query.amountGte.v.n
    /\ query.amountLte.set => doc.amount <= query.amountLte.v.n

\* A filter built without userId carries { userId: undefined }, which is sent
\* as { userId: null }: it matches the documents without a userId, and no
\* stored document is without one (the path is required).
Matches(doc, query) ==
    /\ doc.userId = query.userId
    /\ query.dateGte.k = "date" => DateLeq(query.dateGte.t, doc.date)
    /\ query.dateLte.k = "date" => DateLeq(doc.date, query.dateLte.t)
    /\ query.category # NoString => doc.category = query.category
    /\ query.type # NoString => doc.type = query.type
    /\ query.amountGte.set => doc.amount >= query.amountGte.v.n
    /\ query.amountLte.set => doc.amount <= query.amountLte.v.n

RECURSIVE Filter(_, _)
Filter(coll, query) ==
    IF coll = <<>> THEN <<>>
    ELSE IF Matches(Head(coll), query)
    THEN <<Head(coll)>> \o Filter(Tail(coll), query)
    ELSE Filter(Tail(coll), query)

NoSort == [field |-> NoString, dir |-> 0]
DateDescending == [field |-> "date", dir |-> 0 - 1]

\* a sorts strictly before b under the sort specification
Before(a, b, sort) ==
    LET less(x, y) == IF sort.field = "date"
                      THEN ~DateLeq(y.date, x.date)
                      ELSE x.amount < y.amount
    IN IF sort.dir = 1 THEN less(a, b) ELSE less(b, a)

RECURSIVE InsertSorted(_, _, _)
InsertSorted(sorted, x, sort) ==
    IF sorted = <<>> THEN <<x>>
    ELSE IF Before(x, Head(sorted), sort) THEN <<x>> \o sorted
    ELSE <<Head(sorted)>> \o InsertSorted(Tail(sorted), x, sort)

\* Documents with equal keys keep their natural order.
RECURSIVE SortBy(_, _)
SortBy(docs, sort) ==
    IF docs = <<>> THEN <<>>
    ELSE InsertSorted(SortBy(SubSeq(docs, 1, Len(docs) - 1), sort), docs[Len(docs)], sort)

\* Mutant of Find: the limit is taken before the skip, in the order of the
\* calls.
FindLimitBeforeSkip(coll, query, sort, limit, skip) ==
    LET sorted == SortBy(Filter(coll, query), sort)
        limited == SubSeq(sorted, 1, Min(Len(sorted), limit))
    IN SubSeq(limited, skip + 1, Len(limited))

\* Transaction.find(query).sort(sort).limit(limit).skip(skip).lean(): the
\* cursor skips first and limits after, whatever the order of the calls.
Find(coll, query, sort, limit, skip) ==
    LET sorted == SortBy(Filter(coll, query), sort)
    IN SubSeq(sorted, skip + 1, Min(Len(sorted), skip + limit))

countDocuments(coll, query) == Len(Filter(coll, query))

(***************************************************************************)
(* DatabaseService: queries.                                               *)
(***************************************************************************)
DefaultLimit == 100

NoOptions ==
    [startDate |-> NoDate, endDate |-> NoDate, category |-> NoString, type |-> NoString,
     minAmount |-> Undefined, maxAmount |-> Undefined,
     limit |-> Undefined, skip |-> Undefined, sort |-> NoSort]

\* Lines 192-221: the filter built from the options.
BuildQuery(userId, options) ==
    [userId |-> userId,
     dateGte |-> options.startDate,
     dateLte |-> options.endDate,
     category |-> IF TruthyString(options.category) THEN options.category ELSE NoString,
     type |-> IF TruthyString(options.type) THEN options.type ELSE NoString,
     amountGte |-> IF Truthy(options.minAmount)
                   THEN Bound(parseFloat(options.minAmount)) ELSE NoBound,
     amountLte |-> IF Truthy(options.maxAmount)
                   THEN Bound(parseFloat(options.maxAmount)) ELSE NoBound]

NoPagination == [total |-> 0, limit |-> 0, skip |-> 0, hasMore |-> FALSE]

QueryFailed == [success |-> FALSE, data |-> <<>>, pagination |-> NoPagination]

\* Mutant of getTransactionsByUser: total is taken from the page.
getTransactionsByUserTotalOfPage(coll, userId, options) ==
    LET query == BuildQuery(userId, options)
        limit == OrDefault(parseInt(options.limit), DefaultLimit)
        skip == OrDefault(parseInt(options.skip), 0)
        sort == IF options.sort = NoSort THEN DateDescending ELSE options.sort
    IN IF ~CastAccepted(query) THEN QueryFailed
       ELSE LET transactions == Find(coll, query, sort, limit, skip)
                total == Len(transactions)
            IN [success |-> TRUE,
                data |-> transactions,
                pagination |-> [total |-> total, limit |-> limit, skip |-> skip,
                                hasMore |-> skip + Len(transactions) < total]]

getTransactionsByUser(coll, userId, options) ==
    LET query == BuildQuery(userId, options)
        limit == OrDefault(parseInt(options.limit), DefaultLimit)
        skip == OrDefault(parseInt(options.skip), 0)
        sort == IF options.sort = NoSort THEN DateDescending ELSE options.sort
    IN IF ~CastAccepted(query) THEN QueryFailed
       ELSE LET transactions == Find(coll, query, sort, limit, skip)
                total == countDocuments(coll, query)
            IN [success |-> TRUE,
                data |-> transactions,
                pagination |-> [total |-> total, limit |-> limit, skip |-> skip,
                                hasMore |-> skip + Len(transactions) < total]]

\* Mutant of getTransactionsByMonth: endDate is the start of the last day.
getTransactionsByMonthToMidnight(coll, userId, year, month) ==
    LET startDate == NewDate(year, month - 1, 1, 0, 0, 0, 0)
        endDate == NewDate(year, month, 0, 0, 0, 0, 0)
    IN getTransactionsByUser(coll, userId,
           [NoOptions EXCEPT !.startDate = ADate(startDate), !.endDate = ADate(endDate)])

getTransactionsByMonth(coll, userId, year, month) ==
    LET startDate == NewDate(year, month - 1, 1, 0, 0, 0, 0)
        endDate == NewDate(year, month, 0, 23, 59, 59, 999)
    IN getTransactionsByUser(coll, userId,
           [NoOptions EXCEPT !.startDate = ADate(startDate), !.endDate = ADate(endDate)])

getTransactionsByCategory(coll, userId, category, options) ==
    getTransactionsByUser(coll, userId, [options EXCEPT !.category = category])

(***************************************************************************)
(* Aggregation.                                                            *)
(***************************************************************************)
\* { $match: match } of getUserStats and getSummary: userId and the dates.
MatchStage(coll, userId, startDate, endDate) ==
    Filter(coll, [userId |-> userId, dateGte |-> startDate, dateLte |-> endDate,
                  category |-> NoString, type |-> NoString,
                  amountGte |-> NoBound, amountLte |-> NoBound])

\* Mutant of SumAmount: { $sum: 1 } in place of { $sum: '$amount' }.
SumOne(docs) == Len(docs)

\* { $sum: '$amount' } over the documents of one group
RECURSIVE SumAmount(_)
SumAmount(docs) == IF docs = <<>> THEN 0 ELSE Head(docs).amount + SumAmount(Tail(docs))

RECURSIVE OfType(_, _)
OfType(docs, type) ==
    IF docs = <<>> THEN <<>>
    ELSE IF Head(docs).type = type THEN <<Head(docs)>> \o OfType(Tail(docs), type)
    ELSE OfType(Tail(docs), type)

RECURSIVE OfCategory(_, _)
OfCategory(docs, category) ==
    IF docs = <<>> THEN <<>>
    ELSE IF Head(docs).category = category
    THEN <<Head(docs)>> \o OfCategory(Tail(docs), category)
    ELSE OfCategory(Tail(docs), category)

\* { $group: { _id: '$type', total: { $sum: '$amount' }, count: { $sum: 1 } } }
GroupByType(docs) ==
    { [_id |-> t, total |-> SumAmount(OfType(docs, t)), count |-> Len(OfType(docs, t))] :
        t \in {docs[i].type : i \in 1..Len(docs)} }

\* Mutant of getUserStats: the forEach does not test stat._id, every group
\* filling the credit and the debit figures alike.
getUserStatsOfAnyType(coll, userId, startDate, endDate) ==
    LET stats == GroupByType(MatchStage(coll, userId, startDate, endDate))
        pick(type, field) ==
            IF stats # {} THEN (CHOOSE stat \in stats : TRUE)[field] ELSE 0
        totalCredit == pick("Credit", "total")
        totalDebit == pick("Debit", "total")
    IN [totalCredit |-> totalCredit,
        totalDebit |-> totalDebit,
        creditCount |-> pick("Credit", "count"),
        debitCount |-> pick("Debit", "count"),
        netAmount |-> totalCredit - totalDebit]

getUserStats(coll, userId, startDate, endDate) ==
    LET stats == GroupByType(MatchStage(coll, userId, startDate, endDate))
        pick(type, field) ==
            IF \E stat \in stats : stat._id = type
            THEN (CHOOSE stat \in stats : stat._id = type)[field]
            ELSE 0
        totalCredit == pick("Credit", "total")
        totalDebit == pick("Debit", "total")
    IN [totalCredit |-> totalCredit,
        totalDebit |-> totalDebit,
        creditCount |-> pick("Credit", "count"),
        debitCount |-> pick("Debit", "count"),
        netAmount |-> totalCredit - totalDebit]

\* First $group of the category breakdown: one bucket per (category, type).
GroupByCategoryAndType(docs) ==
    { [_id |-> [category |-> k[1], type |-> k[2]],
       total |-> SumAmount(OfType(OfCategory(docs, k[1]), k[2])),
       count |-> Len(OfType(OfCategory(docs, k[1]), k[2]))] :
        k \in {<<docs[i].category, docs[i].type>> : i \in 1..Len(docs)} }

\* The accumulators of the second $group over the buckets of one category:
\* $sum of $cond[type = Debit, total, 0], of $cond[type = Credit, total, 0],
\* and of count.
RECURSIVE Accumulate(_, _)
Accumulate(buckets, field) ==
    IF buckets = {} THEN 0
    ELSE LET b == CHOOSE x \in buckets : TRUE
             term == CASE field = "debit" -> IF b._id.type = "Debit" THEN b.total ELSE 0
                       [] field = "credit" -> IF b._id.type = "Credit" THEN b.total ELSE 0
                       [] field = "count" -> b.count
         IN term + Accumulate(buckets \ {b}, field)

\* Mutant of CategoryEntry: debit sums the totals of every type.
CategoryEntryDebitOfAllTypes(buckets, category) ==
    LET mine == {b \in buckets : b._id.category = category}
    IN [_id |-> category,
        debit |-> Accumulate(mine, "debit") + Accumulate(mine, "credit"),
        credit |-> Accumulate(mine, "credit"),
        count |-> Accumulate(mine, "count")]

\* Second $group: one entry per category, fanning the type-keyed totals into
\* debit and credit.
CategoryEntry(buckets, category) ==
    LET mine == {b \in buckets : b._id.category = category}
    IN [_id |-> category,
        debit |-> Accumulate(mine, "debit"),
        credit |-> Accumulate(mine, "credit"),
        count |-> Accumulate(mine, "count")]

\* The categories of docs, each once, in order of first appearance.
RECURSIVE CategoriesOf(_)
CategoriesOf(docs) ==
    IF docs = <<>> THEN <<>>
    ELSE LET rest == CategoriesOf(SubSeq(docs, 1, Len(docs) - 1))
             c == docs[Len(docs)].category
         IN IF \E i \in 1..Len(rest) : rest[i] = c THEN rest ELSE Append(rest, c)

\* Mutant of InsertByDebit: { $sort: { debit: 1 } }.
RECURSIVE InsertByDebitAscending(_, _)
InsertByDebitAscending(sorted, e) ==
    IF sorted = <<>> THEN <<e>>
    ELSE IF e.debit < Head(sorted).debit THEN <<e>> \o sorted
    ELSE <<Head(sorted)>> \o InsertByDebitAscending(Tail(sorted), e)

RECURSIVE InsertByDebit(_, _)
InsertByDebit(sorted, e) ==
    IF sorted = <<>> THEN <<e>>
    ELSE IF e.debit > Head(sorted).debit THEN <<e>> \o sorted
    ELSE <<Head(sorted)>> \o InsertByDebit(Tail(sorted), e)

\* { $sort: { debit: -1 } }
RECURSIVE SortByDebit(_)
SortByDebit(entries) ==
    IF entries = <<>> THEN <<>>
    ELSE InsertByDebit(SortByDebit(SubSeq(entries, 1, Len(entries) - 1)),
                       entries[Len(entries)])

\* The aggregate pipeline of getSummary, lines 294-320.
CategoryStats(coll, userId, startDate, endDate) ==
    LET docs == MatchStage(coll, userId, startDate, endDate)
        buckets == GroupByCategoryAndType(docs)
        cats == CategoriesOf(docs)
    IN SortByDebit([i \in 1..Len(cats) |-> CategoryEntry(buckets, cats[i])])

getSummary(coll, userId, startDate, endDate) ==
    LET stats == getUserStats(coll, userId, startDate, endDate)
        categoryStats == CategoryStats(coll, userId, startDate, endDate)
    IN [success |-> TRUE, data |-> [overview |-> stats, categories |-> categoryStats]]

(***************************************************************************)
(* DatabaseService: delete and categories.                                 *)
(***************************************************************************)
RECURSIVE NotOfUser(_, _)
NotOfUser(coll, userId) ==
    IF coll = <<>> THEN <<>>
    ELSE IF Head(coll).userId = userId THEN NotOfUser(Tail(coll), userId)
    ELSE <<Head(coll)>> \o NotOfUser(Tail(coll), userId)

\* Mutant of deleteUserTransactions: deleteMany({}) , the filter left out.
deleteTransactionsOfAllUsers(coll, userId) ==
    [store |-> <<>>, result |-> [success |-> TRUE, deleted |-> Len(coll)]]

\* Transaction.deleteMany({ userId })
deleteUserTransactions(coll, userId) ==
    LET kept == NotOfUser(coll, userId)
    IN [store |-> kept, result |-> [success |-> TRUE, deleted |-> Len(coll) - Len(kept)]]

\* Mutant of getCategories: distinct('category') , the filter left out.
getCategoriesOfAllUsers(coll, userId) ==
    [success |-> TRUE, data |-> {coll[i].category : i \in 1..Len(coll)}]

\* Transaction.distinct('category', { userId })
getCategories(coll, userId) ==
    [success |-> TRUE,
     data |-> {coll[i].category : i \in {j \in 1..Len(coll) : coll[j].userId = userId}}]

(***************************************************************************)
(* Arguments of the queries.                                               *)
(***************************************************************************)
StartDates == {NoDate, ADate(NewDate(2024, 9, 1, 0, 0, 0, 0))}
EndDates == {NoDate, ADate(NewDate(2024, 9, 31, 0, 0, 0, 0))}
CategoryArgs == {NoString, "Food", "Salary"}
TypeArgs == {NoString, "Debit", "Credit"}
AmountArgs == {Undefined, Num(0), Num(100), Str(<<"5", "0">>), Str(<<"a", "b", "c">>)}
LimitArgs == {Undefined} \cup {Num(n) : n \in 0..MaxLimit}
SkipArgs == {Undefined} \cup {Num(n) : n \in 1..MaxSkip}
SortArgs == {NoSort, [field |-> "amount", dir |-> 1]}

\* Date, category, type and pagination options.
FilterOptions ==
    { [NoOptions EXCEPT !.startDate = sd, !.endDate = ed, !.category = c, !.type = t,
                        !.limit = l, !.skip = s] :
        sd \in StartDates, ed \in EndDates, c \in CategoryArgs, t \in TypeArgs,
        l \in LimitArgs, s \in SkipArgs }

\* Amount, type and sort options.
AmountOptions ==
    { [NoOptions EXCEPT !.minAmount = lo, !.maxAmount = hi, !.type = t, !.sort = so] :
        lo \in AmountArgs, hi \in AmountArgs, t \in TypeArgs, so \in SortArgs }

\* Pagination of a listing sorted by amount.
PageOptions ==
    { [NoOptions EXCEPT !.limit = l, !.skip = s, !.sort = so] :
        l \in LimitArgs, s \in SkipArgs, so \in SortArgs \ {NoSort} }

Options == FilterOptions \cup AmountOptions \cup PageOptions

\* The userId argument of a service call: a user, or nothing at all (the
\* service methods do not look at it before they build the filter).
UserArgs == Users \cup {NoString}

\* The options tried in a call without userId.
AbsentUserOptions ==
    { [NoOptions EXCEPT !.maxAmount = hi, !.type = t] :
        hi \in AmountArgs, t \in TypeArgs }

\* The (userId, options) pairs of getTransactionsByUser.
UserQueries ==
    (Users \X Options) \cup ({NoString} \X AbsentUserOptions)

(***************************************************************************)
(* State.                                                                  *)
(***************************************************************************)
\* store: the transactions collection, in natural order.  last: the call of
\* the request being served and its result.  requests: the insertTransactions
\* calls of requests served at the same time, each at its own await.
VARIABLES store, last, requests

vars == <<store, last, requests>>

Idle == [op |-> "idle"]

Init ==
    /\ store = <<>>
    /\ last = Idle
    /\ requests = <<>>

CallInsertTransaction ==
    /\ last = Idle
    /\ \E data \in Candidates, fault \in Faults :
          LET r == insertTransaction(store, data, fault)
          IN /\ store' = r.store
             /\ last' = [op |-> "insertTransaction", data |-> data, fault |-> fault,
                         result |-> r.result]
    /\ UNCHANGED requests

CallInsertTransactions ==
    /\ last = Idle
    /\ \E transactions \in Batches :
          \E faults \in [1..Len(transactions) -> Faults] :
             LET r == insertTransactions(store, transactions, faults)
             IN /\ store' = r.store
                /\ last' = [op |-> "insertTransactions", transactions |-> transactions,
                            faults |-> faults, result |-> r.result]
    /\ UNCHANGED requests

CallGetTransactionsByUser ==
    /\ last = Idle
    /\ \E call \in UserQueries :
          LET userId == call[1]
              options == call[2]
          IN last' = [op |-> "getTransactionsByUser", userId |-> userId,
                      options |-> options,
                      result |-> getTransactionsByUser(store, userId, options)]
    /\ UNCHANGED store
    /\ UNCHANGED requests

CallGetTransactionsByMonth ==
    /\ last = Idle
    /\ \E userId \in UserArgs, year \in Years, month \in Months :
          last' = [op |-> "getTransactionsByMonth", userId |-> userId, year |-> year,
                   month |-> month,
                   result |-> getTransactionsByMonth(store, userId, year, month)]
    /\ UNCHANGED store
    /\ UNCHANGED requests

CallGetTransactionsByCategory ==
    /\ last = Idle
    /\ \E userId \in UserArgs, category \in CategoryArgs \ {NoString},
          sd \in StartDates, ed \in EndDates :
          LET options == [NoOptions EXCEPT !.startDate = sd, !.endDate = ed]
          IN last' = [op |-> "getTransactionsByCategory", userId |-> userId,
                      category |-> category, options |-> options,
                      result |-> getTransactionsByCategory(store, userId, category, options)]
    /\ UNCHANGED store
    /\ UNCHANGED requests

CallGetSummary ==
    /\ last = Idle
    /\ \E userId \in Users, sd \in StartDates, ed \in EndDates :
          last' = [op |-> "getSummary", userId |-> userId, startDate |-> sd, endDate |-> ed,
                   result |-> getSummary(store, userId, sd, ed)]
    /\ UNCHANGED store
    /\ UNCHANGED requests

CallDeleteUserTransactions ==
    /\ last = Idle
    /\ \E userId \in Users :
          LET r == deleteUserTransactions(store, userId)
          IN /\ store' = r.store
             /\ last' = [op |-> "deleteUserTransactions", userId |-> userId,
                         result |-> r.result]
    /\ UNCHANGED requests

CallGetCategories ==
    /\ last = Idle
    /\ \E userId \in Users :
          last' = [op |-> "getCategories", userId |-> userId,
                   result |-> getCategories(store, userId)]
    /\ UNCHANGED store
    /\ UNCHANGED requests

\* The route handler sends the result and the request ends.
Respond ==
    /\ last # Idle
    /\ last' = Idle
    /\ UNCHANGED store
    /\ UNCHANGED requests



Next ==
    \/ CallInsertTransaction
    \/ CallInsertTransactions
    \/ CallGetTransactionsByUser
    \/ CallGetTransactionsByMonth
    \/ CallGetTransactionsByCategory
    \/ CallGetSummary
    \/ CallDeleteUserTransactions
    \/ CallGetCategories
    \/ Respond

Spec == Init /\ [][Next]_vars

(***************************************************************************)
(* The ingestion routes.  The file read by either route is an input: what  *)
(* extraction wrote, records carrying any userId or none the route         *)
(* expects.                                                                *)
(***************************************************************************)
NoStats == [inserted |-> 0, duplicates |-> 0, errors |-> 0, total |-> 0]

\* The request ended before insertTransactions was called.
Refused(coll, status) ==
    [store |-> coll,
     response |-> [status |-> status, called |-> FALSE, passed |-> <<>>, stats |-> NoStats]]

\* insertTransactions is called on the records and its counters are sent.
Imported(coll, transactions, faults) ==
    LET r == insertTransactions(coll, transactions, faults)
    IN [store |-> r.store,
        response |-> [status |-> 200, called |-> TRUE, passed |-> transactions,
                      stats |-> [inserted |-> r.result.inserted,
                                 duplicates |-> r.result.duplicates,
                                 errors |-> r.result.errors,
                                 total |-> Len(transactions)]]]

\* POST /api/transactions/import, the file at filePath holding `file`.
PostImport(coll, userId, file, faults) ==
    IF ~TruthyString(userId) THEN Refused(coll, 400)
    ELSE LET transactions == [k \in 1..Len(file) |-> [file[k] EXCEPT !.userId = userId]]
         IN Imported(coll, transactions, faults)

\* processPDF(filePath, userId): the parsed content of the file picked from
\* extracted/ after the extraction process has ended.
processPDF(file, userId) == file

\* POST /api/upload
PostUpload(coll, userId, file, faults) ==
    IF ~TruthyString(userId) THEN Refused(coll, 400)
    ELSE LET transactions == processPDF(file, userId)
         IN IF Len(transactions) = 0 THEN Refused(coll, 400)
            ELSE Imported(coll, transactions, faults)

CallPostImport ==
    /\ last = Idle
    /\ \E userId \in UserArgs, file \in Batches :
          \E faults \in [1..Len(file) -> Faults] :
             LET r == PostImport(store, userId, file, faults)
             IN /\ store' = r.store
                /\ last' = [op |-> "import", userId |-> userId, file |-> file,
                            faults |-> faults, response |-> r.response]
    /\ UNCHANGED requests

CallPostUpload ==
    /\ last = Idle
    /\ \E userId \in UserArgs, file \in Batches :
          \E faults \in [1..Len(file) -> Faults] :
             LET r == PostUpload(store, userId, file, faults)
             IN /\ store' = r.store
                /\ last' = [op |-> "upload", userId |-> userId, file |-> file,
                            faults |-> faults, response |-> r.response]
    /\ UNCHANGED requests

IngestNext ==
    \/ CallPostImport
    \/ CallPostUpload
    \/ Respond

SpecIngest == Init /\ [][IngestNext]_vars

(***************************************************************************)
(* Two requests served at the same time.  Each runs insertTransactions on  *)
(* its own batch; the steps of a request are its awaits, findOne in        *)
(* isDuplicate and save(), and the store serves one of them at a time.     *)
(* The store answers every call here.                                      *)
(***************************************************************************)
RequestIds == {1, 2}

\* Where the for loop stands once record i - 1 is done with.
LoopHead(transactions, i) == IF i > Len(transactions) THEN "return" ELSE "check"

StartRequest(transactions) ==
    [transactions |-> transactions, i |-> 1, pc |-> LoopHead(transactions, 1),
     results |-> [inserted |-> 0, duplicates |-> 0, errors |-> 0, transactions |-> <<>>]]

\* The result of record i is tallied and the loop goes on.
Tallied(req, result) ==
    [req EXCEPT !.results = Tally(@, result),
                !.i = @ + 1,
                !.pc = LoopHead(req.transactions, req.i + 1)]

ConcurrentInit ==
    /\ store = <<>>
    /\ last = Idle
    /\ requests \in [RequestIds -> {StartRequest(b) : b \in Batches}]

\* const exists = await Transaction.isDuplicate(transactionData.id)
CheckExists(r) ==
    /\ requests[r].pc = "check"
    /\ requests' = [requests EXCEPT ![r] =
           IF isDuplicate(store, @.transactions[@.i].id)
           THEN Tallied(@, Duplicate)
           ELSE [@ EXCEPT !.pc = "save"]]
    /\ UNCHANGED <<store, last>>

\* new Transaction(transactionData), await transaction.save(); a rejected
\* save (validation, or the unique index on id) is caught.
Save(r) ==
    /\ requests[r].pc = "save"
    /\ LET transaction == NewTransaction(requests[r].transactions[requests[r].i])
       IN IF SaveAccepted(store, transaction, "none")
          THEN /\ store' = Append(store, transaction)
               /\ requests' = [requests EXCEPT ![r] = Tallied(@, Inserted(transaction))]
          ELSE /\ store' = store
               /\ requests' = [requests EXCEPT ![r] = Tallied(@, Failed)]
    /\ UNCHANGED last

\* return results
Return(r) ==
    /\ requests[r].pc = "return"
    /\ requests' = [requests EXCEPT ![r].pc = "done"]
    /\ UNCHANGED <<store, last>>

ConcurrentNext ==
    \E r \in RequestIds :
        \/ CheckExists(r)
        \/ Save(r)
        \/ Return(r)

SpecConcurrent == ConcurrentInit /\ [][ConcurrentNext]_vars

(***************************************************************************)
(* A read request served while other requests write.  getSummary and      *)
(* getTransactionsByUser each await two reads of the collection; between   *)
(* the two, the insert or the delete of another request can be served.     *)
(* `requests` holds the read request in flight.                            *)
(***************************************************************************)
\* The options of the listing read here: pagination with either sort, and a
\* bound that cannot be cast.
ReadOptions ==
    { [NoOptions EXCEPT !.limit = l, !.skip = s, !.sort = so] :
        l \in LimitArgs, s \in SkipArgs, so \in SortArgs }
    \cup {[NoOptions EXCEPT !.maxAmount = Str(<<"a", "b", "c">>)]}

\* No read request is in flight.
NoRead == [op |-> "idle", pc |-> "idle"]

ReadsInit ==
    /\ store = <<>>
    /\ last = Idle
    /\ requests = NoRead

\* Another request's insertTransaction is served (the store answering).
WriteInsert ==
    /\ requests.pc # "done"
    /\ \E data \in Records :
          /\ store' = insertTransaction(store, data, "none").store
          /\ store' # store
    /\ UNCHANGED <<last, requests>>

\* Another request's deleteUserTransactions is served.
WriteDelete ==
    /\ requests.pc # "done"
    /\ \E userId \in Users :
          /\ store' = deleteUserTransactions(store, userId).store
          /\ store' # store
    /\ UNCHANGED <<last, requests>>

EnterGetSummary ==
    /\ requests.op = "idle"
    /\ \E userId \in Users, sd \in StartDates, ed \in EndDates :
          requests' = [op |-> "getSummary", pc |-> "stats", userId |-> userId,
                       startDate |-> sd, endDate |-> ed,
                       stats |-> getUserStats(<<>>, userId, sd, ed),
                       result |-> getSummary(<<>>, userId, sd, ed)]
    /\ UNCHANGED <<store, last>>

\* const stats = await Transaction.getUserStats(userId, startDate, endDate)
ReadStats ==
    /\ requests.op = "getSummary" /\ requests.pc = "stats"
    /\ requests' = [requests EXCEPT
           !.stats = getUserStats(store, requests.userId,
                                  requests.startDate, requests.endDate),
           !.pc = "categories"]
    /\ UNCHANGED <<store, last>>

\* const categoryStats = await Transaction.aggregate([...]); return
ReadCategoryStats ==
    /\ requests.op = "getSummary" /\ requests.pc = "categories"
    /\ requests' = [requests EXCEPT
           !.result = [success |-> TRUE,
                       data |-> [overview |-> requests.stats,
                                 categories |-> CategoryStats(store, requests.userId,
                                                    requests.startDate, requests.endDate)]],
           !.pc = "done"]
    /\ UNCHANGED <<store, last>>

EnterGetTransactionsByUser ==
    /\ requests.op = "idle"
    /\ \E userId \in Users, options \in ReadOptions :
          requests' = [op |-> "getTransactionsByUser", pc |-> "find", userId |-> userId,
                       options |-> options, transactions |-> <<>>,
                       result |-> QueryFailed]
    /\ UNCHANGED <<store, last>>

\* const transactions = await Transaction.find(query).sort(sort).limit(limit)
\*    .skip(skip).lean(); a filter that cannot be cast rejects here.
ReadFind ==
    /\ requests.op = "getTransactionsByUser" /\ requests.pc = "find"
    /\ LET options == requests.options
           query == BuildQuery(requests.userId, options)
           limit == OrDefault(parseInt(options.limit), DefaultLimit)
           skip == OrDefault(parseInt(options.skip), 0)
           sort == IF options.sort = NoSort THEN DateDescending ELSE options.sort
       IN requests' =
             IF ~CastAccepted(query)
             THEN [requests EXCEPT !.result = QueryFailed, !.pc = "done"]
             ELSE [requests EXCEPT
                      !.transactions = Find(store, query, sort, limit, skip),
                      !.pc = "count"]
    /\ UNCHANGED <<store, last>>

\* const total = await Transaction.countDocuments(query); return
ReadCount ==
    /\ requests.op = "getTransactionsByUser" /\ requests.pc = "count"
    /\ LET options == requests.options
           query == BuildQuery(requests.userId, options)
           limit == OrDefault(parseInt(options.limit), DefaultLimit)
           skip == OrDefault(parseInt(options.skip), 0)
           total == countDocuments(store, query)
       IN requests' = [requests EXCEPT
             !.result = [success |-> TRUE,
                         data |-> requests.transactions,
                         pagination |->
                            [total |-> total, limit |-> limit, skip |-> skip,
                             hasMore |-> skip + Len(requests.transactions) < total]],
             !.pc = "done"]
    /\ UNCHANGED <<store, last>>

\* The route handler sends the result of the read.
RespondRead ==
    /\ requests.pc = "done"
    /\ requests' = NoRead
    /\ UNCHANGED <<store, last>>

ReadsNext ==
    \/ WriteInsert
    \/ WriteDelete
    \/ EnterGetSummary
    \/ ReadStats
    \/ ReadCategoryStats
    \/ EnterGetTransactionsByUser
    \/ ReadFind
    \/ ReadCount
    \/ RespondRead

SpecReads == ReadsInit /\ [][ReadsNext]_vars

(***************************************************************************)
(* Properties of ingestion.                                                *)
(***************************************************************************)
CountId(coll, id) == Cardinality({i \in 1..Len(coll) : coll[i].id = id})

\* A record that passes the schema's validation once the defaults are applied.
Acceptable(data) == Validate(NewTransaction(data))

NoFaults(transactions) == [i \in 1..Len(transactions) |-> "none"]

\* C1 (Uniqueness): whenever calls can be made (no call in flight) and the
\* store holds no record with their id, inserting two schema-valid records
\* r1, r2 that share the id one after the other (the quantifier covers both
\* orders), with the store answering both calls, leaves exactly one record
\* with the id; the first call returns success and the second the duplicate
\* outcome.
C1_Uniqueness ==
    last = Idle =>
    \A r1 \in Records, r2 \in Records :
        (r1.id = r2.id /\ Acceptable(r1) /\ Acceptable(r2) /\ CountId(store, r1.id) = 0) =>
            LET first == insertTransaction(store, r1, "none")
                second == insertTransaction(first.store, r2, "none")
            IN /\ CountId(second.store, r1.id) = 1
               /\ first.result.success /\ ~first.result.duplicate
               /\ second.result.duplicate /\ ~second.result.success

\* A second record with a stored id, differing from the stored one, has been
\* turned away as a duplicate.
C1_Witness ==
    /\ last.op = "insertTransaction"
    /\ last.result.duplicate
    /\ CountId(store, last.data.id) = 1
    /\ \E i \in 1..Len(store) :
          store[i].id = last.data.id /\ store[i].userId # last.data.userId

\* C3 (Idempotent batch): once insertTransactions(records) has returned with
\* every record inserted, calling it again with the same records (the store
\* answering every call) returns inserted = 0, duplicates = records.length,
\* errors = 0 and leaves the store unchanged.
C3_IdempotentBatch ==
    (/\ last.op = "insertTransactions"
     /\ last.result.inserted = Len(last.transactions)) =>
        LET again == insertTransactions(store, last.transactions, NoFaults(last.transactions))
        IN /\ again.result.inserted = 0
           /\ again.result.duplicates = Len(last.transactions)
           /\ again.result.errors = 0
           /\ again.result.transactions = <<>>
           /\ again.store = store

\* A batch of two records is stored in full, exactly as a first run leaves it,
\* and its second run has just returned.
C3_Witness ==
    /\ last.op = "insertTransactions"
    /\ Len(last.transactions) = 2
    /\ last.transactions[1].id # last.transactions[2].id
    /\ \A k \in 1..2 : \E i \in 1..Len(store) : store[i] = NewTransaction(last.transactions[k])
    /\ last.result.inserted = 0
    /\ last.result.duplicates = 2

\* Record k of the batch cannot be persisted: it is invalid or the store
\* rejects its call.
FailsToPersist(transactions, faults, k) ==
    faults[k] # "none" \/ ~Acceptable(transactions[k])

\* The ids of the batch are pairwise distinct and none is stored.
AllNew(coll, transactions) ==
    /\ \A j \in 1..Len(transactions) : CountId(coll, transactions[j].id) = 0
    /\ \A i, j \in 1..Len(transactions) : transactions[i].id = transactions[j].id => i = j

\* C4 (Partial failure isolation): a call of insertTransactions on a batch
\* of new ids in which exactly one record k fails to persist (validation or
\* storage failure) and every other record is valid returns counters (it
\* does not throw), with errors = 1, inserted = records.length - 1 and
\* duplicates = 0, and every other record, those after k included, is in the
\* store afterwards while k is not.
C4_PartialFailure ==
    [][ (/\ last'.op = "insertTransactions"
         /\ AllNew(store, last'.transactions)
         /\ \E k \in 1..Len(last'.transactions) :
               /\ FailsToPersist(last'.transactions, last'.faults, k)
               /\ \A j \in 1..Len(last'.transactions) :
                     j # k => ~FailsToPersist(last'.transactions, last'.faults, j))
        => (/\ last'.result.errors = 1
            /\ last'.result.inserted = Len(last'.transactions) - 1
            /\ last'.result.duplicates = 0
            /\ Len(store') = Len(store) + Len(last'.transactions) - 1
            /\ \A j \in 1..Len(last'.transactions) :
                  FailsToPersist(last'.transactions, last'.faults, j)
                  <=> ~\E i \in 1..Len(store') :
                         store'[i] = NewTransaction(last'.transactions[j])) ]_vars

\* The first record of a batch failed and the record after it was inserted.
C4_Witness ==
    /\ last.op = "insertTransactions"
    /\ Len(last.transactions) >= 2
    /\ FailsToPersist(last.transactions, last.faults, 1)
    /\ last.result.errors = 1
    /\ last.result.inserted = Len(last.transactions) - 1
    /\ \E i \in 1..Len(store) : store[i] = NewTransaction(last.transactions[2])

(***************************************************************************)
(* Properties of the queries.                                              *)
(***************************************************************************)
ListOps == {"getTransactionsByUser", "getTransactionsByMonth", "getTransactionsByCategory"}

\* The documents of one user, in natural order.
RECURSIVE OwnDocs(_, _)
OwnDocs(coll, userId) ==
    IF coll = <<>> THEN <<>>
    ELSE IF Head(coll).userId = userId THEN <<Head(coll)>> \o OwnDocs(Tail(coll), userId)
    ELSE OwnDocs(Tail(coll), userId)

\* C2 (Isolation): every record returned by getTransactionsByUser,
\* getTransactionsByMonth and getTransactionsByCategory for user U has
\* userId = U and the total counts no more than U's records; the summary and
\* the categories returned for U are those of U's records alone, whatever
\* else the store holds.
C2_Isolation ==
    /\ last.op \in ListOps =>
          /\ \A i \in 1..Len(last.result.data) : last.result.data[i].userId = last.userId
          /\ last.result.pagination.total <= Len(OwnDocs(store, last.userId))
    /\ last.op = "getSummary" =>
          last.result = getSummary(OwnDocs(store, last.userId), last.userId,
                                   last.startDate, last.endDate)
    /\ last.op = "getCategories" =>
          LET own == OwnDocs(store, last.userId)
          IN last.result.data = {own[i].category : i \in 1..Len(own)}

\* A query without filters returned records of its user while the store held
\* a record of another user.
C2_Witness ==
    /\ last.op = "getTransactionsByUser"
    /\ last.options = NoOptions
    /\ Len(last.result.data) > 0
    /\ \E i \in 1..Len(store) : store[i].userId # last.userId

\* The calendar, month by month (month 1 = January).
MonthLength(y, m) ==
    CASE m = 2 -> IF IsLeap(y) THEN 29 ELSE 28
      [] m \in {4, 6, 9, 11} -> 30
      [] OTHER -> 31

RECURSIVE FirstDayOfMonth(_, _)
FirstDayOfMonth(y, m) ==
    IF m = 1 THEN (IF y = 2024 THEN 0 ELSE FirstDayOfMonth(y - 1, 12) + 31)
    ELSE FirstDayOfMonth(y, m - 1) + MonthLength(y, m - 1)

FirstInstant(y, m) == [d |-> FirstDayOfMonth(y, m), ms |-> 0]
LastInstant(y, m) ==
    [d |-> FirstDayOfMonth(y, m) + MonthLength(y, m) - 1,
     ms |-> 23 * 3600000 + 59 * 60000 + 59 * 1000 + 999]

\* C5 (Month filter equivalence): getTransactionsByMonth(U, y, m) returns
\* the same records in the same order and the same pagination as
\* getTransactionsByUser(U, {startDate, endDate}) with startDate the first
\* instant of the month and endDate 23:59:59.999 of its last day.
C5_MonthEquivalence ==
    last.op = "getTransactionsByMonth" =>
        last.result = getTransactionsByUser(store, last.userId,
                          [NoOptions EXCEPT
                              !.startDate = ADate(FirstInstant(last.year, last.month)),
                              !.endDate = ADate(LastInstant(last.year, last.month))])

\* A month query returned a record dated within the last day of its month
\* and left out a record of the same user.
C5_Witness ==
    /\ last.op = "getTransactionsByMonth"
    /\ \E i \in 1..Len(last.result.data) :
          /\ last.result.data[i].date.d = LastInstant(last.year, last.month).d
          /\ last.result.data[i].date.ms > 0
    /\ Len(last.result.data) < Len(OwnDocs(store, last.userId))

RECURSIVE SumField(_, _)
SumField(entries, field) ==
    IF entries = <<>> THEN 0 ELSE Head(entries)[field] + SumField(Tail(entries), field)

\* C6 (Aggregation consistency): in the result of getSummary,
\* overview.totalDebit is the sum of categories[].debit, overview.totalCredit
\* the sum of categories[].credit, and overview.netAmount is
\* totalCredit - totalDebit.
C6_AggregationConsistency ==
    last.op = "getSummary" =>
        LET overview == last.result.data.overview
            categories == last.result.data.categories
        IN /\ last.result.success
           /\ overview.totalDebit = SumField(categories, "debit")
           /\ overview.totalCredit = SumField(categories, "credit")
           /\ overview.netAmount = overview.totalCredit - overview.totalDebit

\* A summary over two categories with both debits and credits.
C6_Witness ==
    /\ last.op = "getSummary"
    /\ Len(last.result.data.categories) >= 2
    /\ last.result.data.overview.totalDebit > 0
    /\ last.result.data.overview.totalCredit > 0

\* The skip passed in the options, 0 when none is.
SkipPassed(options) == IF options.skip.k = "number" THEN options.skip.n ELSE 0

\* C7 (Pagination invariant): a successful getTransactionsByUser returns
\* hasMore = (skip + number of returned records < total), and total is the
\* number of all matching records (the length of the listing without limit
\* and skip) and is the same for every choice of limit and skip.
C7_Pagination ==
    (last.op = "getTransactionsByUser" /\ last.result.success) =>
        /\ last.result.pagination.skip = SkipPassed(last.options)
        /\ last.result.pagination.hasMore
              = (SkipPassed(last.options) + Len(last.result.data)
                    < last.result.pagination.total)
        /\ last.result.pagination.total
              = Len(getTransactionsByUser(store, last.userId,
                       [last.options EXCEPT !.limit = Undefined, !.skip = Undefined]).data)
        /\ \A l \in LimitArgs, s \in SkipArgs :
              getTransactionsByUser(store, last.userId,
                  [last.options EXCEPT !.limit = l, !.skip = s]).pagination.total
                 = last.result.pagination.total

\* A page shorter than the listing was returned after a skip, with more to come.
C7_Witness ==
    /\ last.op = "getTransactionsByUser"
    /\ last.options.skip = Num(1)
    /\ last.options.limit = Num(1)
    /\ Len(last.result.data) = 1
    /\ last.result.pagination.total = 3
    /\ last.result.pagination.hasMore

\* The three records of the example, as stored.
ExampleRecords ==
    { Rec("a", "u1", NewDate(2024, 9, 1, 0, 0, 0, 0), 100, "Debit", "Food"),
      Rec("b", "u1", NewDate(2024, 9, 31, 12, 0, 0, 0), 500, "Credit", "Salary"),
      Rec("c", "u1", NewDate(2024, 10, 1, 0, 0, 0, 0), 50, "Debit", "Food") }

\* C8 (End-to-end example): with exactly the records {a, Debit, 100, Food},
\* {b, Credit, 500, Salary}, {c, Debit, 50, Food} inserted for u1,
\* getSummary(u1) returns totalCredit = 500, totalDebit = 150,
\* netAmount = 350 and a categories entry Food with debit = 150, credit = 0,
\* count = 2.
C8_Example ==
    (/\ last.op = "getSummary"
     /\ last.userId = "u1"
     /\ last.startDate = NoDate /\ last.endDate = NoDate
     /\ Len(store) = 3
     /\ {store[i] : i \in 1..3} = ExampleRecords) =>
        /\ last.result.success
        /\ last.result.data.overview.totalCredit = 500
        /\ last.result.data.overview.totalDebit = 150
        /\ last.result.data.overview.netAmount = 350
        /\ \E i \in 1..Len(last.result.data.categories) :
              last.result.data.categories[i]
                 = [_id |-> "Food", debit |-> 150, credit |-> 0, count |-> 2]

\* The summary of u1 was taken with the three records of the example stored.
C8_Witness ==
    /\ last.op = "getSummary"
    /\ last.userId = "u1"
    /\ last.startDate = NoDate /\ last.endDate = NoDate
    /\ Len(store) = 3
    /\ {store[i] : i \in 1..3} = ExampleRecords

\* The predicate of the contract: a bound that is given restricts.
Given(v) == v.k # "undefined"

Satisfies(doc, userId, options) ==
    /\ doc.userId = userId
    /\ options.startDate.k = "date" => DateLeq(options.startDate.t, doc.date)
    /\ options.endDate.k = "date" => DateLeq(doc.date, options.endDate.t)
    /\ options.category # NoString => doc.category = options.category
    /\ options.type # NoString => doc.type = options.type
    /\ Given(options.minAmount) => doc.amount >= options.minAmount.n
    /\ Given(options.maxAmount) => doc.amount <= options.maxAmount.n

\* C9 (Filter predicate): with amount bounds given as numbers (or not given),
\* getTransactionsByUser matches exactly the records that satisfy the AND of
\* the given criteria; a given bound always applies, a bound of 0 included.
C9_FilterPredicate ==
    (/\ last.op = "getTransactionsByUser"
     /\ last.options.minAmount.k \in {"number", "undefined"}
     /\ last.options.maxAmount.k \in {"number", "undefined"}) =>
        /\ last.result.success
        /\ last.result.pagination.total
              = Cardinality({i \in 1..Len(store) :
                               Satisfies(store[i], last.userId, last.options)})
        /\ \A i \in 1..Len(last.result.data) :
              Satisfies(last.result.data[i], last.userId, last.options)

\* A string that parseFloat cannot read as a number.
NonNumeric(v) == v.k = "string" /\ Len(v.s) > 0 /\ ~IsDigit(v.s[1])

WithoutNonNumeric(options) ==
    [options EXCEPT
        !.minAmount = IF NonNumeric(@) THEN Undefined ELSE @,
        !.maxAmount = IF NonNumeric(@) THEN Undefined ELSE @]

\* C10 as stated (Lenient numeric filters): a non-numeric minAmount or
\* maxAmount is treated as absent, the call returning what it returns with
\* that bound omitted.
C10_LenientNumericFilters ==
    (/\ last.op = "getTransactionsByUser"
     /\ NonNumeric(last.options.minAmount) \/ NonNumeric(last.options.maxAmount)) =>
        /\ last.result.success
        /\ last.result = getTransactionsByUser(store, last.userId,
                                               WithoutNonNumeric(last.options))

\* C10 as amended: a non-numeric minAmount or maxAmount makes
\* getTransactionsByUser return a failure result (success = false) without
\* records or pagination, whatever the store holds and whatever the other
\* options are.
C10_NonNumericRejected ==
    (/\ last.op = "getTransactionsByUser"
     /\ NonNumeric(last.options.minAmount) \/ NonNumeric(last.options.maxAmount)) =>
        /\ ~last.result.success
        /\ last.result.data = <<>>
        /\ last.result.pagination = NoPagination

\* A query with a non-numeric maxAmount was made for a user who has records
\* that the query without the bound returns.
C10_Witness ==
    /\ last.op = "getTransactionsByUser"
    /\ NonNumeric(last.options.maxAmount)
    /\ ~Given(last.options.minAmount)
    /\ Len(getTransactionsByUser(store, last.userId,
                                 WithoutNonNumeric(last.options)).data) > 0

\* C18 (Category is never empty after ingestion): every record in the store
\* has a category that is neither absent nor null nor the empty string; and
\* a new record passed to insertTransaction without a category and otherwise
\* valid, the store answering, is inserted and stored with category "Other".
C18_CategoryNeverEmpty ==
    /\ \A i \in 1..Len(store) : store[i].category \notin {NoString, NullString, ""}
    /\ (/\ last.op = "insertTransaction"
        /\ last.data.category = NoString
        /\ Validate([last.data EXCEPT !.category = "Other"])
        /\ last.fault = "none"
        /\ ~last.result.duplicate) =>
          /\ last.result.success
          /\ last.result.data.category = "Other"
          /\ \E i \in 1..Len(store) :
                store[i] = [last.data EXCEPT !.category = "Other"]

\* A record without category has been inserted next to a record that came
\* with one.
C18_Witness ==
    /\ last.op = "insertTransaction"
    /\ last.data.category = NoString
    /\ last.result.success
    /\ \E i \in 1..Len(store) : store[i].category = "Other"
    /\ \E i \in 1..Len(store) : store[i].category = "Food"

(***************************************************************************)
(* Properties of the error outcomes.                                       *)
(***************************************************************************)
\* C11 (Missing user identifier): getTransactionsByUser,
\* getTransactionsByMonth and getTransactionsByCategory called without
\* userId fail: the result is never a success and carries no records.
C11_MissingUserRejected ==
    (last.op \in ListOps /\ last.userId = NoString) =>
        /\ ~last.result.success
        /\ last.result.data = <<>>

\* The records of the store that satisfy the criteria, by position.
Matching(coll, userId, options) ==
    {i \in 1..Len(coll) : Satisfies(coll[i], userId, options)}

\* An amount bound that is not given, or is a number other than 0 (a bound of
\* 0 and a bound given as a string are the cases of C9 and C10).
PlainBound(v) == v.k = "undefined" \/ (v.k = "number" /\ v.n # 0)

\* C14 (Empty results are success with zero values): getSummary for user U
\* returns success; when none of U's records in the date range is a Credit,
\* totalCredit and creditCount are 0, when none is a Debit, totalDebit and
\* debitCount are 0, and netAmount is totalCredit - totalDebit in every
\* case.  getTransactionsByUser for U, when no record satisfies the criteria,
\* returns success with an empty data list, total = 0 and hasMore = false.
C14_EmptyIsSuccess ==
    /\ last.op = "getSummary" =>
          LET range == [NoOptions EXCEPT !.startDate = last.startDate,
                                         !.endDate = last.endDate]
              none(type) == Matching(store, last.userId,
                                     [range EXCEPT !.type = type]) = {}
              overview == last.result.data.overview
          IN /\ last.result.success
             /\ none("Credit") => overview.totalCredit = 0 /\ overview.creditCount = 0
             /\ none("Debit") => overview.totalDebit = 0 /\ overview.debitCount = 0
             /\ overview.netAmount = overview.totalCredit - overview.totalDebit
             /\ Matching(store, last.userId, range) = {}
                   => last.result.data.categories = <<>>
    /\ (/\ last.op = "getTransactionsByUser"
        /\ last.userId \in Users
        /\ PlainBound(last.options.minAmount)
        /\ PlainBound(last.options.maxAmount)
        /\ Matching(store, last.userId, last.options) = {}) =>
          /\ last.result.success
          /\ last.result.data = <<>>
          /\ last.result.pagination.total = 0
          /\ ~last.result.pagination.hasMore

\* A summary was taken for a user who has debits in the store and no credit.
C14_Witness ==
    /\ last.op = "getSummary"
    /\ last.startDate = NoDate /\ last.endDate = NoDate
    /\ \E i \in 1..Len(store) : store[i].userId = last.userId /\ store[i].amount > 0
    /\ \A i \in 1..Len(store) : store[i].userId = last.userId => store[i].type = "Debit"
    /\ last.result.data.overview.totalCredit = 0
    /\ last.result.data.overview.totalDebit > 0

\* a does not come after b under the sort specification.
InOrder(a, b, sort) ==
    IF sort.field = "date"
    THEN (IF sort.dir = 1 THEN DateLeq(a.date, b.date) ELSE DateLeq(b.date, a.date))
    ELSE (IF sort.dir = 1 THEN a.amount <= b.amount ELSE b.amount <= a.amount)

\* The sort passed in the options, date descending when none is.
SortPassed(options) == IF options.sort = NoSort THEN DateDescending ELSE options.sort

\* The call in `last` returned the positions [skip, skip + limit) of the
\* listing of all matching records in sort order, and the total of that
\* listing.
PageAt(limit) ==
    LET all == getTransactionsByUser(store, last.userId,
                   [last.options EXCEPT !.limit = Undefined, !.skip = Undefined])
        listing == all.data
        skip == SkipPassed(last.options)
    IN /\ Len(listing) = all.pagination.total
       /\ \A j, k \in 1..Len(listing) : listing[j] = listing[k] => j = k
       /\ \A k \in 1..Len(listing) : \E i \in 1..Len(store) : store[i] = listing[k]
       /\ (/\ last.userId \in Users
           /\ PlainBound(last.options.minAmount)
           /\ PlainBound(last.options.maxAmount)) =>
             {listing[k] : k \in 1..Len(listing)}
                = {store[i] : i \in Matching(store, last.userId, last.options)}
       /\ \A k \in 1..(Len(listing) - 1) :
             InOrder(listing[k], listing[k + 1], SortPassed(last.options))
       /\ last.result.data = SubSeq(listing, skip + 1, Min(Len(listing), skip + limit))
       /\ last.result.pagination.total = all.pagination.total

\* C19 as stated (Page contents and defaults): a successful
\* getTransactionsByUser returns the positions [skip, skip + limit) of the
\* matching records in sort order, with sort = date descending, limit = 100
\* and skip = 0 when they are omitted and the passed values otherwise; the
\* total does not depend on limit and skip.
C19_PageContents ==
    (last.op = "getTransactionsByUser" /\ last.result.success) =>
        PageAt(IF last.options.limit.k = "number"
               THEN last.options.limit.n ELSE DefaultLimit)

\* C19 as amended: as above, but a limit of 0 counts as omitted: the page is
\* then the positions [skip, skip + 100), and the limit reported in the
\* pagination is 100.
C19_PageContentsZeroAsDefault ==
    (last.op = "getTransactionsByUser" /\ last.result.success) =>
        LET limit == IF last.options.limit.k = "number" /\ last.options.limit.n >= 1
                     THEN last.options.limit.n ELSE DefaultLimit
        IN /\ PageAt(limit)
           /\ last.result.pagination.limit = limit

\* A listing of three records sorted by amount was asked for with limit 1
\* after a skip of 1 and returned the second of them alone.
C19_Witness ==
    /\ last.op = "getTransactionsByUser"
    /\ last.options.sort # NoSort
    /\ last.options.limit = Num(1)
    /\ last.options.skip = Num(1)
    /\ last.result.pagination.total = 3
    /\ Len(last.result.data) = 1
    /\ \E i, j \in 1..Len(store) :
          /\ store[i].userId = last.userId /\ store[j].userId = last.userId
          /\ store[i].amount < last.result.data[1].amount
          /\ last.result.data[1].amount < store[j].amount

(***************************************************************************)
(* Properties of the summary.                                              *)
(***************************************************************************)
\* The sum of the amounts of the records at the positions S.
RECURSIVE SumAt(_, _)
SumAt(coll, S) ==
    IF S = {} THEN 0
    ELSE LET i == CHOOSE j \in S : TRUE
         IN coll[i].amount + SumAt(coll, S \ {i})

\* C15 (Category breakdown): the categories of getSummary for user U hold
\* exactly one entry for every category that occurs among U's records in the
\* date range and none for any other; the entry's debit is the sum of the
\* amounts of the category's Debit records, its credit the sum of the amounts
\* of its Credit records, its count the number of its records; and the
\* entries are in descending order of debit.
C15_CategoryBreakdown ==
    last.op = "getSummary" =>
        LET range == [NoOptions EXCEPT !.startDate = last.startDate,
                                       !.endDate = last.endDate]
            matching == Matching(store, last.userId, range)
            of(category, type) ==
                {i \in matching : store[i].category = category /\ store[i].type = type}
            categories == last.result.data.categories
        IN /\ {categories[k]._id : k \in 1..Len(categories)}
                 = {store[i].category : i \in matching}
           /\ \A j, k \in 1..Len(categories) :
                 categories[j]._id = categories[k]._id => j = k
           /\ \A k \in 1..Len(categories) :
                 /\ categories[k].debit = SumAt(store, of(categories[k]._id, "Debit"))
                 /\ categories[k].credit = SumAt(store, of(categories[k]._id, "Credit"))
                 /\ categories[k].count
                       = Cardinality({i \in matching :
                                        store[i].category = categories[k]._id})
           /\ \A k \in 1..(Len(categories) - 1) :
                 categories[k].debit >= categories[k + 1].debit

\* A summary listed a category with debits before the category of the
\* user's first stored record, which has none.
C15_Witness ==
    /\ last.op = "getSummary"
    /\ Len(last.result.data.categories) = 2
    /\ last.result.data.categories[1].debit > last.result.data.categories[2].debit
    /\ last.result.data.categories[1].count = 2
    /\ LET own == OwnDocs(store, last.userId)
       IN own[1].category = last.result.data.categories[2]._id

(***************************************************************************)
(* Frame properties.                                                       *)
(***************************************************************************)
\* C12 (Duplicate insert is a no-op): a call of insertTransaction with a
\* record whose id is in the store leaves the store as it was (no record
\* added, the stored record with that id keeping every field, whatever the
\* fields of the new record) and does not report an insertion; when the
\* store answers the lookup the result is the duplicate outcome.
C12_DuplicateNoOp ==
    [][ (last'.op = "insertTransaction" /\ CountId(store, last'.data.id) > 0)
        => (/\ store' = store
            /\ ~last'.result.success
            /\ last'.fault # "find" => last'.result.duplicate) ]_vars

\* A record was turned away as a duplicate of a stored record that differs
\* from it in userId, amount, type and category.
C12_Witness ==
    /\ last.op = "insertTransaction"
    /\ last.result.duplicate
    /\ \E i \in 1..Len(store) :
          /\ store[i].id = last.data.id
          /\ store[i].userId # last.data.userId
          /\ store[i].amount # last.data.amount
          /\ store[i].type # last.data.type
          /\ store[i].category # last.data.category

(***************************************************************************)
(* Properties of concurrent ingestion.                                     *)
(***************************************************************************)
\* Both requests have returned, and every record of their batches is valid.
BothReturned ==
    /\ \A r \in RequestIds : requests[r].pc = "done"
    /\ \A r \in RequestIds : \A k \in 1..Len(requests[r].transactions) :
          Acceptable(requests[r].transactions[k])

\* C13 (Concurrent duplicate reporting): when two insertTransactions calls
\* of different requests run concurrently on valid records and both hold a
\* record with the same id, then whatever the interleaving of their
\* exists-checks and saves, exactly one record with that id is stored and
\* the attempt that lost is counted in duplicates: no request counts an
\* error.
C13_ConcurrentDuplicates ==
    BothReturned =>
        /\ \A r \in RequestIds : \A k \in 1..Len(requests[r].transactions) :
              CountId(store, requests[r].transactions[k].id) = 1
        /\ \A r \in RequestIds : requests[r].results.errors = 0

\* C16 (Delete all for user): deleteUserTransactions(U) returns success with
\* deleted equal to the number of records U had just before the call (0
\* when U had none), leaves no record with userId = U in the store, and
\* leaves the records of every other user as they were, in their order.
C16_DeleteAllForUser ==
    [][ last'.op = "deleteUserTransactions"
        => (/\ last'.result.success
            /\ last'.result.deleted
                  = Cardinality({i \in 1..Len(store) : store[i].userId = last'.userId})
            /\ \A i \in 1..Len(store') : store'[i].userId # last'.userId
            /\ \A u \in Users \ {last'.userId} : OwnDocs(store', u) = OwnDocs(store, u)
            /\ Len(store') = Len(store) - last'.result.deleted) ]_vars

\* A delete removed records of its user and left a record of another user
\* in the store.
C16_Witness ==
    /\ last.op = "deleteUserTransactions"
    /\ last.result.deleted >= 2
    /\ Len(store) >= 1

\* C17 (Distinct categories are never stale): whatever insertions and
\* deletes came before, getCategories(U) returns success with exactly the
\* categories carried by at least one record of U in the store at the time
\* of the call: none that only deleted records carried, none that only
\* other users' records carry.
C17_CategoriesNeverStale ==
    last.op = "getCategories" =>
        /\ last.result.success
        /\ \A c \in last.result.data :
              \E i \in 1..Len(store) :
                 store[i].userId = last.userId /\ store[i].category = c
        /\ \A i \in 1..Len(store) :
              store[i].userId = last.userId => store[i].category \in last.result.data

\* The categories of a user without records were asked for while another
\* user's records carry categories.
C17_Witness ==
    /\ last.op = "getCategories"
    /\ last.result.data = {}
    /\ Cardinality({store[i].category : i \in 1..Len(store)}) >= 2

(***************************************************************************)
(* Properties of the ingestion routes.                                     *)
(***************************************************************************)
\* C20 (Consistent userId assignment on import): every record that a
\* POST /import or a POST /api/upload request for user U passes to
\* insertTransactions carries userId = U, whatever userId it had in the
\* file.
C20_UserIdAssigned ==
    (last.op \in {"import", "upload"} /\ last.response.called) =>
        \A k \in 1..Len(last.response.passed) :
            last.response.passed[k].userId = last.userId

(***************************************************************************)
(* Properties of the batch counters.                                       *)
(***************************************************************************)
\* a can be had from b by leaving elements out.
RECURSIVE IsSubsequence(_, _)
IsSubsequence(a, b) ==
    IF a = <<>> THEN TRUE
    ELSE IF b = <<>> THEN FALSE
    ELSE IF Head(a) = Head(b) THEN IsSubsequence(Tail(a), Tail(b))
    ELSE IsSubsequence(a, Tail(b))

\* The documents the store holds after the first n.
AddedSince(coll, n) == SubSeq(coll, n + 1, Len(coll))

\* C21 (Batch accounting): for every batch and every mix of new, duplicate
\* and failing records, insertTransactions returns counters with
\* inserted + duplicates + errors = records.length; the returned
\* transactions list has exactly inserted elements, they are the documents
\* this call added to the store, in the order in which it added them, and
\* that order is the order of the input.
C21_BatchAccounting ==
    [][ last'.op = "insertTransactions"
        => LET results == last'.result
               documents == [k \in 1..Len(last'.transactions) |->
                                [last'.transactions[k] EXCEPT
                                    !.category = IF @ = NoString THEN "Other" ELSE @]]
           IN /\ results.inserted + results.duplicates + results.errors
                    = Len(last'.transactions)
              /\ Len(results.transactions) = results.inserted
              /\ Len(store') = Len(store) + results.inserted
              /\ SubSeq(store', 1, Len(store)) = store
              /\ results.transactions = AddedSince(store', Len(store))
              /\ IsSubsequence(results.transactions, documents) ]_vars

\* A batch of two records came back with its first record counted as a
\* duplicate and its second inserted, next to records stored before.
C21_Witness ==
    /\ last.op = "insertTransactions"
    /\ Len(last.transactions) = 2
    /\ last.result.duplicates = 1
    /\ last.result.inserted = 1
    /\ last.result.transactions[1].id = last.transactions[2].id
    /\ Len(store) = 3

\* The store holds a record with the id of `data` that another user owns.
OwnedByAnother(coll, data) ==
    \E i \in 1..Len(coll) : coll[i].id = data.id /\ coll[i].userId # data.userId

\* C22 (Cross-user id collision): insertTransaction of a record for user B
\* whose id is the id of a record stored for user A, the store answering the
\* lookup, returns the duplicate outcome and leaves the store as it was, A's
\* record still A's; after it B owns no record with that id and the listing
\* of all of B's records returns none with that id.
C22_CrossUserCollision ==
    [][ (/\ last'.op = "insertTransaction"
         /\ last'.fault # "find"
         /\ OwnedByAnother(store, last'.data))
        => (/\ last'.result.duplicate
            /\ ~last'.result.success
            /\ store' = store
            /\ \A i \in 1..Len(store') :
                  store'[i].id = last'.data.id => store'[i].userId # last'.data.userId
            /\ LET listing == getTransactionsByUser(store', last'.data.userId, NoOptions)
               IN /\ listing.success
                  /\ \A k \in 1..Len(listing.data) :
                        listing.data[k].id # last'.data.id) ]_vars

\* A record of a user who has a record in the store was turned away as a
\* duplicate of another user's record.
C22_Witness ==
    /\ last.op = "insertTransaction"
    /\ last.result.duplicate
    /\ OwnedByAnother(store, last.data)
    /\ \E i \in 1..Len(store) : store[i].userId = last.data.userId

(***************************************************************************)
(* Properties of reads served among writes.                                *)
(***************************************************************************)
\* C23 (Summary snapshot under concurrency): the summary that getSummary
\* returns has overview.totalDebit = sum of categories[].debit and
\* overview.totalCredit = sum of categories[].credit, also when an insert or
\* a delete was served between its two reads.
C23_SummarySnapshot ==
    (requests.op = "getSummary" /\ requests.pc = "done") =>
        LET overview == requests.result.data.overview
            categories == requests.result.data.categories
        IN /\ overview.totalDebit = SumField(categories, "debit")
           /\ overview.totalCredit = SumField(categories, "credit")

\* C24 (Page and total agree under concurrency): the result that
\* getTransactionsByUser returns, also when an insert or a delete was served
\* between its find and its count, has skip + number of returned records <=
\* total whenever a record is returned, and hasMore = false whenever the page
\* holds the last of the matching records in sort order.
C24_PageAndTotal ==
    (/\ requests.op = "getTransactionsByUser"
     /\ requests.pc = "done"
     /\ requests.result.success) =>
        LET data == requests.result.data
            pagination == requests.result.pagination
            listing == getTransactionsByUser(store, requests.userId,
                          [requests.options EXCEPT !.limit = Undefined,
                                                   !.skip = Undefined]).data
        IN /\ Len(data) >= 1 => pagination.skip + Len(data) <= pagination.total
           /\ (/\ Len(data) >= 1
               /\ Len(listing) >= 1
               /\ data[Len(data)] = listing[Len(listing)]) => ~pagination.hasMore

=============================================================================
